---------------------------- MODULE Spec2Model ----------------------------
(***************************************************************************)
(* A model of the store-management dashboard's telemetry engine:           *)
(*   SensorHistoryService  (the rolling window and its statistics),        *)
(*   IoTService            (sensor / motion callbacks, the classifier),    *)
(*   WarehouseService      (reconciliation of the ledger snapshot),        *)
(*   DashboardComponent    (the auto-expiring theft alert).                *)
(*                                                                         *)
(* JavaScript is single-threaded: a callback runs to completion before     *)
(* another one starts.  BehaviorSubject.next(v) stores v and calls every   *)
(* subscriber synchronously, so the state right after each next() is a     *)
(* state an observer can read.  The sensor callback, which calls next()    *)
(* on several subjects in a row, is therefore modelled as a sequence of    *)
(* steps (pc); no other callback is enabled while it is running.           *)
(*                                                                         *)
(* Numbers.  A number that arrives as decimal text n/Scale is stored as    *)
(* the integer n.  Where the code does floating-point arithmetic (the      *)
(* statistics of the window) the value is converted by ToDouble to the     *)
(* IEEE-754 binary64 number JavaScript computes with.                      *)
(***************************************************************************)
EXTENDS Integers, Sequences, FiniteSets, TLC

VARIABLES
  now,              \* the wall clock, in seconds since construction
  readings,         \* SensorHistoryService.readingsSubject.value
  temperature,      \* IoTService.temperatureSubject.value
  humidity,         \* IoTService.humiditySubject.value
  motion,           \* IoTService.motionSubject.value
  status,           \* IoTService.statusSubject.value
  lastUpdated,      \* IoTService.lastUpdatedSubject.value
  isLoading,        \* IoTService.isLoadingSubject.value
  pc,               \* position of the running sensor callback, or "idle"
  loc,              \* the running sensor callback's locals
  intruderAlert,    \* DashboardComponent.intruderAlert$.value
  alertTime,        \* DashboardComponent.alertTime (-1 is null)
  timers,           \* pending setTimeout callbacks: their due times
  currentInventory, \* WarehouseService.currentInventorySubject.value
  history,          \* WarehouseService.historySubject.value
  alarmHistory,     \* WarehouseService.alarmHistorySubject.value
  doorHistory,      \* WarehouseService.doorHistorySubject.value
  whLoading,        \* WarehouseService.isLoadingSubject.value
  held,             \* a caller's array, returned to it by getAllReadings
  formatted,        \* the last call of formatDate: its argument and its result
  lastOp,           \* history variable: the callback or method that ran last
  pushed,           \* history variable: readings pushed since the window was last empty
  alertLog,         \* history variable: trigger, dismiss and timer-clear events with their times
  lastSnapshot,     \* history variable: the ledger snapshot delivered last
  cleared,          \* history variable: readings the last clearReadings removed (-1: none yet)
  delivered,        \* history variable: the streams that have delivered a snapshot
  ingested          \* history variable: telemetry snapshots that existed and were ingested

vars == <<now, readings, temperature, humidity, motion, status, lastUpdated,
          isLoading, pc, loc, intruderAlert, alertTime, timers,
          currentInventory, history, alarmHistory, doorHistory, whLoading,
          held, formatted, lastOp, pushed, alertLog, lastSnapshot, cleared,
          delivered, ingested>>

windowVars    == <<readings, pushed>>
iotVars       == <<temperature, humidity, motion, status, lastUpdated, isLoading, pc, loc>>
dashboardVars == <<intruderAlert, alertTime, timers, alertLog>>
warehouseVars == <<currentInventory, history, alarmHistory, doorHistory, whLoading,
                   lastSnapshot>>
clientVars    == <<held, formatted>>
traceVars     == <<cleared, delivered, ingested>>

----------------------------------------------------------------------------
(* Bounds of the model *)

\* Decimal inputs are multiples of 1/Scale.
Scale == 100

\* capacity of the rolling window (maxReadings = 100 in the source; the
\* window's behaviour does not depend on the number, so it is scaled down)
maxReadings == 3

\* pushes since the window was last empty
MaxPushes == 5

\* the clock of the services stops at MaxNow
MaxNow == 2

Min(a, b) == IF a <= b THEN a ELSE b
Max(a, b) == IF a >= b THEN a ELSE b

----------------------------------------------------------------------------
(* IEEE-754 binary64 arithmetic on non-negative finite numbers.            *)
(* A natural number is a sequence of bits, most significant first.  A      *)
(* double is [kind, m, e]: NaN, or the value m * 2^e with m a Precision-bit *)
(* significand (the empty sequence for zero).  Every operation computes    *)
(* the exact result and rounds it to nearest, ties to even, as the         *)
(* hardware does.  Exponent overflow and subnormals are out of the range   *)
(* of the sensor values.                                                   *)

Precision == 53

NaN == [kind |-> "nan", m |-> <<>>, e |-> 0]
Zero == [kind |-> "finite", m |-> <<>>, e |-> 0]

Zeros(k) == [i \in 1..k |-> 0]

RECURSIVE NatBits(_)
NatBits(n) == IF n = 0 THEN <<>> ELSE Append(NatBits(n \div 2), n % 2)

StripLeading(b) ==
  LET ones == {i \in 1..Len(b) : b[i] = 1}
  IN  IF ones = {} THEN <<>>
      ELSE SubSeq(b, CHOOSE i \in ones : \A j \in ones : i <= j, Len(b))

\* bits lo..hi of x + y + cin (x and y of equal length), and the carry out;
\* the low half is added first and its carry goes into the high half
RECURSIVE AddRange(_, _, _, _, _)
AddRange(x, y, lo, hi, cin) ==
  IF lo > hi THEN [s |-> <<>>, c |-> cin]
  ELSE IF lo = hi
    THEN LET v == x[lo] + y[lo] + cin IN [s |-> <<v % 2>>, c |-> v \div 2]
  ELSE LET mid  == (lo + hi) \div 2
           low  == AddRange(x, y, mid + 1, hi, cin)
           high == IF low.c = 1 THEN AddRange(x, y, lo, mid, 1)
                                ELSE AddRange(x, y, lo, mid, 0)
       IN  [s |-> high.s \o low.s, c |-> high.c]

AddBits(a, b) ==
  LET n  == Max(Len(a), Len(b))
      pa == Zeros(n - Len(a)) \o a
      pb == Zeros(n - Len(b)) \o b
      r  == AddRange(pa, pb, 1, n, 0)
  IN  IF r.c = 1 THEN <<1>> \o r.s ELSE r.s

\* long division of bits lo..hi of b by n, entered with remainder rin:
\* the quotient bits and the remainder
RECURSIVE DivRange(_, _, _, _, _)
DivRange(b, lo, hi, n, rin) ==
  IF lo > hi THEN [q |-> <<>>, r |-> rin]
  ELSE IF lo = hi
    THEN LET v == 2 * rin + b[lo]
         IN  IF v >= n THEN [q |-> <<1>>, r |-> v - n] ELSE [q |-> <<0>>, r |-> v]
  ELSE LET mid  == (lo + hi) \div 2
           high == DivRange(b, lo, mid, n, rin)
           rmid == high.r
           low  == DivRange(b, mid + 1, hi, n, rmid)
       IN  [q |-> high.q \o low.q, r |-> low.r]

\* the double nearest to bits * 2^e (+ a non-zero fraction below the last
\* bit when sticky), ties to even
RoundBits(bits, sticky, e) ==
  LET b == StripLeading(bits)
      L == Len(b)
  IN  IF L = 0 THEN Zero
      ELSE IF L <= Precision
        THEN [kind |-> "finite", m |-> b \o Zeros(Precision - L), e |-> e - (Precision - L)]
      ELSE
        LET top   == SubSeq(b, 1, Precision)
            guard == b[Precision + 1]
            rest  == sticky \/ \E i \in (Precision + 2)..L : b[i] = 1
            up    == guard = 1 /\ (rest \/ top[Precision] = 1)
            m1    == IF up THEN AddBits(top, <<1>>) ELSE top
        IN  IF Len(m1) > Precision
              THEN [kind |-> "finite", m |-> SubSeq(m1, 1, Precision), e |-> e + (L - Precision) + 1]
              ELSE [kind |-> "finite", m |-> m1, e |-> e + (L - Precision)]

FromNat(n) == RoundBits(NatBits(n), FALSE, 0)

\* x + y
AddD(x, y) ==
  IF x.kind = "nan" \/ y.kind = "nan" THEN NaN
  ELSE IF x.m = <<>> THEN y
  ELSE IF y.m = <<>> THEN x
  ELSE LET emin == Min(x.e, y.e)
       IN  RoundBits(AddBits(x.m \o Zeros(x.e - emin), y.m \o Zeros(y.e - emin)),
                     FALSE, emin)

\* x / n for an integer n >= 0 (0 / 0 is NaN)
GuardBits == 12
DivD(x, n) ==
  IF x.kind = "nan" THEN NaN
  ELSE IF n = 0 THEN NaN
  ELSE IF x.m = <<>> THEN Zero
  ELSE LET num == x.m \o Zeros(GuardBits)
           p   == DivRange(num, 1, Len(num), n, 0)
       IN  RoundBits(p.q, p.r # 0, x.e - GuardBits)

\* x <= y; every comparison with NaN is false
LeD(x, y) ==
  IF x.kind = "nan" \/ y.kind = "nan" THEN FALSE
  ELSE IF x.m = <<>> THEN TRUE
  ELSE IF y.m = <<>> THEN FALSE
  ELSE IF x.e # y.e THEN x.e < y.e
  ELSE LET d == {i \in 1..Precision : x.m[i] # y.m[i]}
       IN  d = {} \/ LET i == CHOOSE j \in d : \A k \in d : j <= k
                     IN  x.m[i] < y.m[i]

\* the double JavaScript holds for the decimal n / Scale
ToDouble(n) == DivD(FromNat(n), Scale)


----------------------------------------------------------------------------
(* SensorHistoryService: the rolling window *)

\* decimal inputs of the window specification (20.00, 21.60 / 45.00, 65.50)
WindowTemperatures == {20 * Scale, 21 * Scale + 60}
WindowHumidities   == {45 * Scale, 65 * Scale + 50}

SensorReading(t, h, ts) == [temperature |-> t, humidity |-> h, timestamp |-> ts]

\* addReading without the eviction of the oldest reading
addReadingNeverEvicts(rs, t, h, ts) ==
  Append(rs, SensorReading(t, h, ts))

\* addReading with the newest reading dropped when the window is full
addReadingDropsNewest(rs, t, h, ts) ==
  LET grown == Append(rs, SensorReading(t, h, ts))
  IN  IF Len(grown) > maxReadings THEN SubSeq(grown, 1, maxReadings) ELSE grown

\* addReading: the array the subject holds after the call.
\* readings.push(newReading); if (readings.length > maxReadings) readings.shift()
addReading(rs, t, h, ts) ==
  LET grown == Append(rs, SensorReading(t, h, ts))
  IN  IF Len(grown) > maxReadings THEN Tail(grown) ELSE grown

\* readings.reduce((acc, r) => acc + r.f, 0) over the first i doubles of s
RECURSIVE SumTo(_, _)
SumTo(s, i) == IF i = 0 THEN Zero ELSE AddD(SumTo(s, i - 1), s[i])

\* Math.max(...s) and Math.min(...s) of a non-empty sequence of doubles
MaxOf(s) == s[CHOOSE i \in 1..Len(s) : \A j \in 1..Len(s) : LeD(s[j], s[i])]
MinOf(s) == s[CHOOSE i \in 1..Len(s) : \A j \in 1..Len(s) : LeD(s[i], s[j])]

\* readings.map(r => r.temperature), readings.map(r => r.humidity)
TemperaturesOf(rs) == [i \in 1..Len(rs) |-> ToDouble(rs[i].temperature)]
HumiditiesOf(rs)   == [i \in 1..Len(rs) |-> ToDouble(rs[i].humidity)]

\* getAverageTemperature without the guard for the empty window
getAverageTemperatureUnguarded ==
  DivD(SumTo(TemperaturesOf(readings), Len(readings)), Len(readings))

getAverageTemperature ==
  IF Len(readings) = 0 THEN Zero
  ELSE DivD(SumTo(TemperaturesOf(readings), Len(readings)), Len(readings))

getAverageHumidity ==
  IF Len(readings) = 0 THEN Zero
  ELSE DivD(SumTo(HumiditiesOf(readings), Len(readings)), Len(readings))

getMaxTemperature ==
  IF Len(readings) = 0 THEN Zero ELSE MaxOf(TemperaturesOf(readings))

getMinTemperature ==
  IF Len(readings) = 0 THEN Zero ELSE MinOf(TemperaturesOf(readings))

getMaxHumidity ==
  IF Len(readings) = 0 THEN Zero ELSE MaxOf(HumiditiesOf(readings))

getMinHumidity ==
  IF Len(readings) = 0 THEN Zero ELSE MinOf(HumiditiesOf(readings))

----------------------------------------------------------------------------
(* Untyped values of a realtime-database snapshot.  A value is a number    *)
(* (n, in units of 1/Scale for sensor fields), a string (s; for a string   *)
(* with a numeric prefix, kind "numstring", n is the number parseFloat     *)
(* reads from it), a boolean (n is 1 or 0), an object (o: its entries in   *)
(* Object.keys order) or undefined (a missing field).                      *)

JUndefined    == [kind |-> "undefined", n |-> 0, s |-> "", o |-> <<>>]
JNum(n)       == [kind |-> "number", n |-> n, s |-> "", o |-> <<>>]
JStr(s)       == [kind |-> "string", n |-> 0, s |-> s, o |-> <<>>]
JNumStr(s, n) == [kind |-> "numstring", n |-> n, s |-> s, o |-> <<>>]
JBool(b)      == [kind |-> "boolean", n |-> IF b THEN 1 ELSE 0, s |-> "", o |-> <<>>]
JObj(entries) == [kind |-> "object", n |-> 0, s |-> "", o |-> entries]

\* ToBoolean(j)
Truthy(j) ==
  CASE j.kind = "undefined" -> FALSE
    [] j.kind = "number"    -> j.n # 0
    [] j.kind = "boolean"   -> j.n = 1
    [] j.kind = "string"    -> j.s # ""
    [] j.kind = "numstring" -> TRUE
    [] j.kind = "object"    -> TRUE

\* j || d
OrElse(j, d) == IF Truthy(j) THEN j ELSE d

\* obj[key]: undefined when obj is no object or has no such key
Get(obj, key) ==
  IF obj.kind = "object" /\ \E i \in 1..Len(obj.o) : obj.o[i].key = key
    THEN obj.o[CHOOSE i \in 1..Len(obj.o) : obj.o[i].key = key].val
    ELSE JUndefined

\* Object.keys(obj)
ObjectKeys(obj) == [i \in 1..Len(obj.o) |-> obj.o[i].key]

Entry(k, v) == [key |-> k, val |-> v]

\* obj.field throws a TypeError when obj is undefined or null
ReadThrows(obj) == obj.kind = "undefined"

----------------------------------------------------------------------------
(* The state after construction *)

\* no array has been handed to a caller; formatDate has not been called
NoArray == [obtained |-> FALSE, shared |-> FALSE, value |-> <<>>, taken |-> <<>>]
NoCall  == [called |-> FALSE, input |-> <<>>, output |-> <<>>]

\* a snapshot of a path that holds no data
MissingSnapshot == [exists |-> FALSE, val |-> JUndefined]

Init ==
  /\ now = 0
  /\ readings = <<>>
  /\ temperature = 0
  /\ humidity = 0
  /\ motion = JBool(FALSE)
  /\ status = "optimal"
  /\ lastUpdated = 0
  /\ isLoading = TRUE
  /\ pc = "idle"
  /\ loc = [data |-> JUndefined, temperature |-> 0, humidity |-> 0]
  /\ intruderAlert = FALSE
  /\ alertTime = -1
  /\ timers = <<>>
  /\ currentInventory = JNum(0)
  /\ history = <<>>
  /\ alarmHistory = <<>>
  /\ doorHistory = <<>>
  /\ whLoading = TRUE
  /\ held = NoArray
  /\ formatted = NoCall
  /\ lastOp = "init"
  /\ pushed = <<>>
  /\ alertLog = <<>>
  /\ lastSnapshot = MissingSnapshot
  /\ cleared = -1
  /\ delivered = {}
  /\ ingested = 0

----------------------------------------------------------------------------
(* Calls of the window's public methods *)

\* Date.now() advances between callbacks
Tick ==
  /\ pc = "idle"
  /\ now < MaxNow
  /\ now' = now + 1
  /\ UNCHANGED <<windowVars, iotVars, dashboardVars, warehouseVars, clientVars, traceVars, lastOp>>

\* addReading pushes onto (and shifts) the array readingsSubject holds and
\* then gives the subject a copy of it: a caller that holds the array the
\* subject held sees it change, and holds a detached array from then on
heldAfterUnshared == [held EXCEPT !.shared = FALSE]

heldAfterAddReading(t, h, ts) ==
  IF held.shared
    THEN [held EXCEPT !.value = addReading(held.value, t, h, ts), !.shared = FALSE]
    ELSE held

AddReadingCall(t, h) ==
  /\ pc = "idle"
  /\ Len(pushed) < MaxPushes
  /\ readings' = addReading(readings, t, h, now)
  /\ held' = heldAfterAddReading(t, h, now)
  /\ pushed' = Append(pushed, SensorReading(t, h, now))
  /\ lastOp' = "addReading"
  /\ UNCHANGED <<now, iotVars, dashboardVars, warehouseVars, formatted, traceVars>>

\* a clearReadings that keeps the newest reading
ClearReadingsKeepsNewest ==
  /\ pc = "idle"
  /\ readings' = IF readings = <<>> THEN <<>> ELSE <<readings[Len(readings)]>>
  /\ held' = heldAfterUnshared
  /\ pushed' = <<>>
  /\ cleared' = Len(readings)
  /\ lastOp' = "clearReadings"
  /\ UNCHANGED <<now, iotVars, dashboardVars, warehouseVars, formatted, delivered, ingested>>

\* clearReadings: readingsSubject.next([])
ClearReadingsCall ==
  /\ pc = "idle"
  /\ readings' = <<>>
  /\ held' = heldAfterUnshared
  /\ pushed' = <<>>
  /\ cleared' = Len(readings)
  /\ lastOp' = "clearReadings"
  /\ UNCHANGED <<now, iotVars, dashboardVars, warehouseVars, formatted, delivered, ingested>>

\* getAllReadings: return this.readingsSubject.value
GetAllReadingsCall ==
  /\ pc = "idle"
  /\ held' = [obtained |-> TRUE, shared |-> TRUE, value |-> readings, taken |-> readings]
  /\ lastOp' = "getAllReadings"
  /\ UNCHANGED <<now, windowVars, iotVars, dashboardVars, warehouseVars, formatted,
                 traceVars>>

NextWindow ==
  \/ Tick
  \/ \E t \in WindowTemperatures, h \in WindowHumidities : AddReadingCall(t, h)
  \/ ClearReadingsCall

SpecWindow == Init /\ [][NextWindow]_vars

\* the window with a caller that keeps what getAllReadings returned
NextCaller ==
  \/ \E h \in WindowHumidities : AddReadingCall(20 * Scale, h)
  \/ ClearReadingsCall
  \/ GetAllReadingsCall

SpecCaller == Init /\ [][NextCaller]_vars

----------------------------------------------------------------------------
(* IoTService *)

\* parseFloat(j): [nan, v]
parseFloat(j) ==
  IF j.kind \in {"number", "numstring"} THEN [nan |-> FALSE, v |-> j.n]
                                         ELSE [nan |-> TRUE, v |-> 0]

\* a coercion that falls back to -1
ParseFloatOrMinusOne(j) ==
  LET f == parseFloat(j) IN IF f.nan \/ f.v = 0 THEN -1 ELSE f.v

\* parseFloat(j) || 0
ParseFloatOrZero(j) ==
  LET f == parseFloat(j) IN IF f.nan \/ f.v = 0 THEN 0 ELSE f.v

\* updateStatus with the upper temperature limit of the optimal band excluded
updateStatusExclusive(t, h) ==
  LET tempOptimal     == t >= 16 * Scale /\ t < 26 * Scale
      humidityOptimal == h >= 30 * Scale /\ h <= 60 * Scale
      tempWarning     == t >= 12 * Scale /\ t <= 30 * Scale
      humidityWarning == h >= 20 * Scale /\ h <= 70 * Scale
  IN  IF tempOptimal /\ humidityOptimal THEN "optimal"
      ELSE IF tempWarning /\ humidityWarning THEN "warning"
      ELSE "critical"

\* updateStatus: the value it hands to statusSubject.next
updateStatus(t, h) ==
  LET tempOptimal     == t >= 16 * Scale /\ t <= 26 * Scale
      humidityOptimal == h >= 30 * Scale /\ h <= 60 * Scale
      tempWarning     == t >= 12 * Scale /\ t <= 30 * Scale
      humidityWarning == h >= 20 * Scale /\ h <= 70 * Scale
  IN  IF tempOptimal /\ humidityOptimal THEN "optimal"
      ELSE IF tempWarning /\ humidityWarning THEN "warning"
      ELSE "critical"

\* a getTemperatureStatus whose optimal range excludes its lower end
getTemperatureStatusStrict(temp) ==
  IF temp > 16 * Scale /\ temp <= 26 * Scale THEN "optimal"
  ELSE IF temp >= 12 * Scale /\ temp <= 30 * Scale THEN "warning"
  ELSE "critical"

\* DashboardComponent.getTemperatureStatus and getHumidityStatus
getTemperatureStatus(temp) ==
  IF temp >= 16 * Scale /\ temp <= 26 * Scale THEN "optimal"
  ELSE IF temp >= 12 * Scale /\ temp <= 30 * Scale THEN "warning"
  ELSE "critical"

getHumidityStatus(h) ==
  IF h >= 30 * Scale /\ h <= 60 * Scale THEN "optimal"
  ELSE IF h >= 20 * Scale /\ h <= 70 * Scale THEN "warning"
  ELSE "critical"

\* a sensor snapshot: snapshot.exists() and snapshot.val()
SensorSnapshotOf(t, h) ==
  [exists |-> TRUE, val |-> JObj(<<Entry("temperature", t), Entry("humidity", h)>>)]

\* the telemetry feed of the model: 20.00 (as text), 5.00, a non-numeric
\* string / 45.00, a missing field
SensorTemperatures == {JNumStr("20.00", 20 * Scale), JNum(5 * Scale), JStr("n/a")}
SensorHumidities   == {JNum(45 * Scale), JUndefined}
SensorSnapshots ==
  {MissingSnapshot, [exists |-> TRUE, val |-> JStr("offline")]} \cup
  {SensorSnapshotOf(t, h) : t \in SensorTemperatures, h \in SensorHumidities}

\* snapshots ingested by the sensor callback
MaxIngests == 2

\* the reads data.temperature and data.humidity throw when data is null
sensorThrows(data) == ReadThrows(data)

\* the sensor callback, line by line.  Each step ends with a next() on a
\* subject, after which that subject's subscribers run.
SensorSnapshot(snapshot) ==
  /\ pc = "idle"
  /\ Len(pushed) < MaxIngests
  /\ IF snapshot.exists /\ sensorThrows(snapshot.val)
       THEN /\ lastOp' = "sensorSnapshotThrew"
            /\ UNCHANGED <<loc, temperature, pc>>
       ELSE IF snapshot.exists
       THEN LET t == ParseFloatOrZero(Get(snapshot.val, "temperature"))
                h == ParseFloatOrZero(Get(snapshot.val, "humidity"))
            IN  /\ loc' = [data |-> snapshot.val, temperature |-> t, humidity |-> h]
                /\ temperature' = t
                /\ pc' = "humidity"
                /\ lastOp' = "sensorSnapshot"
       ELSE /\ lastOp' = "sensorSnapshotMissing"
            /\ UNCHANGED <<loc, temperature, pc>>
  /\ delivered' = delivered \cup {"sensor"}
  /\ ingested' = IF snapshot.exists /\ ~sensorThrows(snapshot.val) THEN ingested + 1
                                                                    ELSE ingested
  /\ UNCHANGED <<now, windowVars, humidity, motion, status, lastUpdated, isLoading,
                 dashboardVars, warehouseVars, clientVars, cleared>>

SensorPublishHumidity ==
  /\ pc = "humidity"
  /\ humidity' = loc.humidity
  /\ pc' = "lastUpdated"
  /\ UNCHANGED <<now, windowVars, temperature, motion, status, lastUpdated, isLoading,
                 loc, dashboardVars, warehouseVars, clientVars, traceVars, lastOp>>

SensorPublishLastUpdated ==
  /\ pc = "lastUpdated"
  /\ lastUpdated' = now
  /\ pc' = "isLoading"
  /\ UNCHANGED <<now, windowVars, temperature, humidity, motion, status, isLoading,
                 loc, dashboardVars, warehouseVars, clientVars, traceVars, lastOp>>

SensorPublishLoading ==
  /\ pc = "isLoading"
  /\ isLoading' = FALSE
  /\ pc' = "addReading"
  /\ UNCHANGED <<now, windowVars, temperature, humidity, motion, status, lastUpdated,
                 loc, dashboardVars, warehouseVars, clientVars, traceVars, lastOp>>

\* a callback that pushes no reading when the temperature is 0
SensorAddReadingSkipsZero ==
  /\ pc = "addReading"
  /\ readings' = IF loc.temperature = 0 THEN readings
                  ELSE addReading(readings, loc.temperature, loc.humidity, now)
  /\ held' = IF loc.temperature = 0 THEN held
              ELSE heldAfterAddReading(loc.temperature, loc.humidity, now)
  /\ pushed' = IF loc.temperature = 0 THEN pushed
                ELSE Append(pushed, SensorReading(loc.temperature, loc.humidity, now))
  /\ pc' = "updateStatus"
  /\ UNCHANGED <<now, temperature, humidity, motion, status, lastUpdated, isLoading,
                 loc, dashboardVars, warehouseVars, formatted, traceVars, lastOp>>

SensorAddReading ==
  /\ pc = "addReading"
  /\ readings' = addReading(readings, loc.temperature, loc.humidity, now)
  /\ held' = heldAfterAddReading(loc.temperature, loc.humidity, now)
  /\ pushed' = Append(pushed, SensorReading(loc.temperature, loc.humidity, now))
  /\ pc' = "updateStatus"
  /\ UNCHANGED <<now, temperature, humidity, motion, status, lastUpdated, isLoading,
                 loc, dashboardVars, warehouseVars, formatted, traceVars, lastOp>>

SensorUpdateStatus ==
  /\ pc = "updateStatus"
  /\ status' = updateStatus(loc.temperature, loc.humidity)
  /\ pc' = "idle"
  /\ UNCHANGED <<now, windowVars, temperature, humidity, motion, lastUpdated, isLoading,
                 loc, dashboardVars, warehouseVars, clientVars, traceVars, lastOp>>

\* an error callback that falls back to the initial telemetry
SensorErrorResets ==
  /\ pc = "idle"
  /\ isLoading' = FALSE
  /\ temperature' = 0
  /\ humidity' = 0
  /\ status' = "optimal"
  /\ lastOp' = "sensorError"
  /\ UNCHANGED <<now, windowVars, motion, lastUpdated, pc, loc, dashboardVars,
                 warehouseVars, clientVars, traceVars>>

\* the error callback of the sensor listener
SensorError ==
  /\ pc = "idle"
  /\ isLoading' = FALSE
  /\ lastOp' = "sensorError"
  /\ UNCHANGED <<now, windowVars, temperature, humidity, motion, status, lastUpdated,
                 pc, loc, dashboardVars, warehouseVars, clientVars, traceVars>>

\* the delay given to setTimeout by triggerTheftAlert, in seconds
ExpiryDelay == 8

\* calls of triggerTheftAlert, calls of dismissAlert, the clock of the alert
MaxTriggers   == 2
MaxDismissals == 1
MaxAlertNow   == 2

EventsOf(kind) == {i \in 1..Len(alertLog) : alertLog[i].ev = kind}
TriggerCount == Cardinality(EventsOf("trigger"))
DismissCount == Cardinality(EventsOf("dismiss"))

MotionSnapshots ==
  {MissingSnapshot, [exists |-> TRUE, val |-> JBool(TRUE)], [exists |-> TRUE, val |-> JBool(FALSE)]}

\* a triggerTheftAlert that sets no timer
triggerTheftAlertWithoutTimer ==
  /\ alertTime' = now
  /\ intruderAlert' = TRUE
  /\ timers' = timers
  /\ alertLog' = Append(alertLog, [ev |-> "trigger", at |-> now])

\* the motion callback; DashboardComponent.checkMotionAlert subscribes to
\* motion$ and runs inside motionSubject.next
triggerTheftAlert ==
  /\ alertTime' = now
  /\ intruderAlert' = TRUE
  /\ timers' = Append(timers, now + ExpiryDelay)
  /\ alertLog' = Append(alertLog, [ev |-> "trigger", at |-> now])

\* a motion callback that also ends the loading state
MotionSnapshotEndsLoading(snapshot) ==
  /\ pc = "idle"
  /\ IF snapshot.exists
       THEN /\ motion' = snapshot.val
            /\ IF Truthy(snapshot.val)
                 THEN TriggerCount < MaxTriggers /\ triggerTheftAlert
                 ELSE UNCHANGED dashboardVars
       ELSE UNCHANGED <<motion, dashboardVars>>
  /\ isLoading' = FALSE
  /\ lastOp' = "motionSnapshot"
  /\ delivered' = delivered \cup {"motion"}
  /\ UNCHANGED <<now, windowVars, temperature, humidity, status, lastUpdated,
                 pc, loc, warehouseVars, clientVars, cleared, ingested>>

MotionSnapshot(snapshot) ==
  /\ pc = "idle"
  /\ IF snapshot.exists
       THEN /\ motion' = snapshot.val
            /\ IF Truthy(snapshot.val)
                 THEN TriggerCount < MaxTriggers /\ triggerTheftAlert
                 ELSE UNCHANGED dashboardVars
       ELSE UNCHANGED <<motion, dashboardVars>>
  /\ lastOp' = "motionSnapshot"
  /\ delivered' = delivered \cup {"motion"}
  /\ UNCHANGED <<now, windowVars, temperature, humidity, status, lastUpdated, isLoading,
                 pc, loc, warehouseVars, clientVars, cleared, ingested>>

\* the error callback of the motion listener only logs
MotionError ==
  /\ pc = "idle"
  /\ lastOp' = "motionError"
  /\ UNCHANGED <<now, windowVars, iotVars, dashboardVars, warehouseVars, clientVars, traceVars>>

NextIoT ==
  \/ Tick
  \/ \E snapshot \in SensorSnapshots : SensorSnapshot(snapshot)
  \/ SensorPublishHumidity
  \/ SensorPublishLastUpdated
  \/ SensorPublishLoading
  \/ SensorAddReading
  \/ SensorUpdateStatus
  \/ SensorError
  \/ \E snapshot \in MotionSnapshots : MotionSnapshot(snapshot)
  \/ MotionError

SpecIoT == Init /\ [][NextIoT]_vars

\* The classifier on its own: the sensor callback has published a snapshot
\* and pushed its reading, and is about to call updateStatus.  The values
\* lie on and next to every limit of the bands.
ClassifyTemperatures ==
  {-5 * Scale, 0, 5 * Scale, 12 * Scale - 1, 12 * Scale, 16 * Scale - 1, 16 * Scale,
   20 * Scale, 26 * Scale, 26 * Scale + 1, 29 * Scale, 30 * Scale, 30 * Scale + 1}
ClassifyHumidities ==
  {0, 20 * Scale - 1, 20 * Scale, 30 * Scale - 1, 30 * Scale, 45 * Scale, 60 * Scale,
   60 * Scale + 1, 65 * Scale, 70 * Scale, 70 * Scale + 1, 90 * Scale}

InitClassify ==
  \E t \in ClassifyTemperatures, h \in ClassifyHumidities :
    /\ now = 0
    /\ readings = <<SensorReading(t, h, 0)>>
    /\ pushed = <<SensorReading(t, h, 0)>>
    /\ temperature = t
    /\ humidity = h
    /\ motion = JBool(FALSE)
    /\ status = "optimal"
    /\ lastUpdated = 0
    /\ isLoading = FALSE
    /\ pc = "updateStatus"
    /\ loc = [data |-> SensorSnapshotOf(JNum(t), JNum(h)).val, temperature |-> t,
              humidity |-> h]
    /\ intruderAlert = FALSE
    /\ alertTime = -1
    /\ timers = <<>>
    /\ alertLog = <<>>
    /\ currentInventory = JNum(0)
    /\ history = <<>>
    /\ alarmHistory = <<>>
    /\ doorHistory = <<>>
    /\ whLoading = TRUE
    /\ lastSnapshot = MissingSnapshot
    /\ lastOp = "sensorSnapshot"
    /\ held = NoArray
    /\ formatted = NoCall
    /\ cleared = -1
    /\ delivered = {"sensor"}
    /\ ingested = 1

NextClassify == SensorUpdateStatus

SpecClassify == InitClassify /\ [][NextClassify]_vars

----------------------------------------------------------------------------
(* DashboardComponent: the intruder alert and its timers *)

\* the callback given to setTimeout; timers of equal delay run in the order
\* they were set, none before it is due
TimerFire ==
  /\ pc = "idle"
  /\ timers # <<>>
  /\ Head(timers) <= now
  /\ intruderAlert' = FALSE
  /\ timers' = Tail(timers)
  /\ alertLog' = Append(alertLog, [ev |-> "clear", at |-> now])
  /\ lastOp' = "timerFire"
  /\ UNCHANGED <<now, windowVars, iotVars, alertTime, warehouseVars, clientVars, traceVars>>

\* dismissAlert: intruderAlert$.next(false); the log records the dismissal
\* of a raised alert
dismissAlert ==
  /\ pc = "idle"
  /\ DismissCount < MaxDismissals
  /\ intruderAlert' = FALSE
  /\ alertLog' = IF intruderAlert THEN Append(alertLog, [ev |-> "dismiss", at |-> now])
                                   ELSE alertLog
  /\ lastOp' = "dismissAlert"
  /\ UNCHANGED <<now, windowVars, iotVars, alertTime, timers, warehouseVars, clientVars, traceVars>>

\* the clock of the alert runs on while a timer is pending
TickAlert ==
  /\ pc = "idle"
  /\ now < MaxAlertNow \/ (timers # <<>> /\ now < Head(timers))
  /\ now' = now + 1
  /\ UNCHANGED <<windowVars, iotVars, dashboardVars, warehouseVars, clientVars, traceVars, lastOp>>

NextAlert ==
  \/ TickAlert
  \/ \E snapshot \in MotionSnapshots : MotionSnapshot(snapshot)
  \/ TimerFire
  \/ dismissAlert

SpecAlert == Init /\ [][NextAlert]_vars

\* time passes and the event loop runs the callback of a timer that is due;
\* no motion event and no call of dismissAlert has to happen
SpecAlertFair ==
  Init /\ [][NextAlert]_vars /\ WF_vars(TickAlert) /\ WF_vars(TimerFire)

----------------------------------------------------------------------------
(* WarehouseService: the ledger listener *)

\* the keys of the ledger.  The device writes YYYY-MM-DD_HH-mm-ss; the
\* last two keys are ISO date-times, which the Date constructor reads.
TransactionKeys == {"2025-12-20_20-11-20", "2025-12-21_08-00-00"}
AlarmKeys       == {"2026-01-05_16-37-41", "2026-01-06_09-00-00"}
DoorKeys        == {"2026-01-05_16-30-00", "2026-01-07_10-10-10"}
IsoKeys         == {"2025-12-22T09:00:00", "2025-12-23T09:00:00"}
WellFormedKeys  == TransactionKeys \cup AlarmKeys \cup DoorKeys

\* the numbers in a key: year, month, day, hour, minute, second
DateParts(key) ==
  CASE key = "2025-12-20_20-11-20" -> <<2025, 12, 20, 20, 11, 20>>
    [] key = "2025-12-21_08-00-00" -> <<2025, 12, 21, 8, 0, 0>>
    [] key = "2026-01-05_16-37-41" -> <<2026, 1, 5, 16, 37, 41>>
    [] key = "2026-01-06_09-00-00" -> <<2026, 1, 6, 9, 0, 0>>
    [] key = "2026-01-05_16-30-00" -> <<2026, 1, 5, 16, 30, 0>>
    [] key = "2026-01-07_10-10-10" -> <<2026, 1, 7, 10, 10, 10>>
    [] key = "2025-12-22T09:00:00" -> <<2025, 12, 22, 9, 0, 0>>
    [] key = "2025-12-23T09:00:00" -> <<2025, 12, 23, 9, 0, 0>>

\* new Date(key).getTime(), in hours since 2025-12-01: NaN unless the key
\* is in a format the Date constructor reads
DateGetTime(key) ==
  IF key \in IsoKeys
    THEN LET d == DateParts(key) IN [nan |-> FALSE, v |-> (d[3] - 1) * 24 + d[4]]
    ELSE [nan |-> TRUE, v |-> 0]

\* the comparator given to sort, as sort reads it: NaN counts as 0
CompareDesc(a, b) ==
  LET tb == DateGetTime(b)
      ta == DateGetTime(a)
  IN  IF tb.nan \/ ta.nan THEN 0 ELSE tb.v - ta.v

\* Array.prototype.sort, a stable sort: the order in which it leaves the
\* first i elements, as indices into keys
RECURSIVE SortPermTo(_, _)
SortPermTo(keys, i) ==
  IF i = 0 THEN <<>>
  ELSE LET p   == SortPermTo(keys, i - 1)
           js  == {j \in 1..Len(p) : CompareDesc(keys[p[j]], keys[i]) <= 0}
           pos == IF js = {} THEN 0 ELSE CHOOSE j \in js : \A k \in js : k <= j
       IN  SubSeq(p, 1, pos) \o <<i>> \o SubSeq(p, pos + 1, Len(p))

SortByKey(s, keys) ==
  LET p == SortPermTo(keys, Len(keys)) IN [i \in 1..Len(s) |-> s[p[i]]]

EventsIn(m, default) ==
  LET ks == ObjectKeys(m)
  IN  [i \in 1..Len(ks) |->
         [timestamp |-> ks[i],
          event     |-> OrElse(Get(Get(m, ks[i]), "event"), JStr(default))]]

SortEvents(evs) == SortByKey(evs, [i \in 1..Len(evs) |-> evs[i].timestamp])

\* the alarm events built from the door sub-mapping
alarmEventsFromDoor(hist) == SortEvents(EventsIn(Get(hist, "door"), "ALARM"))

\* what the callback hands to alarmHistorySubject.next, doorHistorySubject.next
alarmEventsOf(hist) == SortEvents(EventsIn(Get(hist, "alarm"), "ALARM"))
doorEventsOf(hist)  == SortEvents(EventsIn(Get(hist, "door"), "OPEN"))

\* a transaction loop that keeps the records whose amount is truthy
transactionsOfTruthyAmount(hist) ==
  LET IsTransaction(e) ==
        e.key # "alarm" /\ e.key # "door" /\ Truthy(Get(e.val, "amount"))
      kept == SelectSeq(hist.o, IsTransaction)
      txs  == [i \in 1..Len(kept) |->
                 [date    |-> kept[i].key,
                  amount  |-> OrElse(Get(kept[i].val, "amount"), JNum(0)),
                  ton_sau |-> OrElse(Get(kept[i].val, "ton_sau"), JNum(0)),
                  type    |-> OrElse(Get(kept[i].val, "type"), JStr("NHAP"))]]
  IN  SortByKey(txs, [i \in 1..Len(txs) |-> txs[i].date])

\* what the callback hands to historySubject.next
transactionsOf(hist) ==
  LET IsTransaction(e) ==
        e.key # "alarm" /\ e.key # "door" /\ Get(e.val, "amount").kind # "undefined"
      kept == SelectSeq(hist.o, IsTransaction)
      txs  == [i \in 1..Len(kept) |->
                 [date    |-> kept[i].key,
                  amount  |-> OrElse(Get(kept[i].val, "amount"), JNum(0)),
                  ton_sau |-> OrElse(Get(kept[i].val, "ton_sau"), JNum(0)),
                  type    |-> OrElse(Get(kept[i].val, "type"), JStr("NHAP"))]]
  IN  SortByKey(txs, [i \in 1..Len(txs) |-> txs[i].date])

\* the ledger snapshots of the model
Fields3(amount, ton_sau, type) ==
  JObj(<<Entry("amount", amount), Entry("ton_sau", ton_sau), Entry("type", type)>>)

FirstTransactions ==
  {Entry("2025-12-20_20-11-20", Fields3(JNum(50), JNum(150), JStr("NHAP"))),
   Entry("2025-12-20_20-11-20", JObj(<<Entry("note", JStr("recount"))>>))}
SecondTransactions ==
  {Entry("2025-12-21_08-00-00", Fields3(JNum(20), JNum(130), JStr("XUAT"))),
   Entry("2025-12-21_08-00-00", JObj(<<Entry("amount", JStr("abc"))>>))}
IsoFirst  == Entry("2025-12-22T09:00:00", Fields3(JNum(5), JNum(125), JStr("XUAT")))
IsoSecond == Entry("2025-12-23T09:00:00", Fields3(JNum(10), JNum(135), JStr("NHAP")))

\* a record under a key that is no timestamp
Malformed == Entry("not-a-date", Fields3(JNum(7), JNum(137), JStr("NHAP")))

TransactionEntries ==
  {<<>>, <<IsoFirst, IsoSecond>>, <<IsoSecond, IsoFirst>>, <<IsoFirst, Malformed, IsoSecond>>}
  \cup {<<a>> : a \in FirstTransactions}
  \cup {<<a, b>> : a \in FirstTransactions, b \in SecondTransactions}
  \cup {<<b, a>> : a \in FirstTransactions, b \in SecondTransactions}
  \cup {<<a, b, Malformed>> : a \in FirstTransactions, b \in SecondTransactions}
  \cup {<<Malformed, b, a>> : a \in FirstTransactions, b \in SecondTransactions}

AlarmFirst  == Entry("2026-01-05_16-37-41", JObj(<<Entry("event", JStr("TAMPER"))>>))
AlarmSecond == Entry("2026-01-06_09-00-00", JObj(<<Entry("zone", JNum(1))>>))
DoorFirst   == Entry("2026-01-05_16-30-00", JObj(<<Entry("event", JStr("CLOSE"))>>))
DoorSecond  == Entry("2026-01-07_10-10-10", JObj(<<Entry("by", JStr("card"))>>))

SubMappings(first, second) == {<<>>, <<first>>, <<first, second>>}

\* the entry of a sub-mapping in the history object, none when it is empty
UnderKey(key, entries) ==
  IF entries = <<>> THEN <<>> ELSE <<Entry(key, JObj(entries))>>

HistoryValues ==
  {LET all == txs \o UnderKey("alarm", alarms) \o UnderKey("door", doors)
   IN  IF all = <<>> THEN JUndefined ELSE JObj(all) :
     txs \in TransactionEntries,
     alarms \in SubMappings(AlarmFirst, AlarmSecond),
     doors \in SubMappings(DoorSecond, DoorFirst)}

\* histories with present-but-falsy fields and with values of other shapes:
\* an amount of 0 beside a record without amount, an empty event; a record
\* and an entry that are no objects, an 'alarm' that is a number; a history
\* that is a string
FalsyHistory ==
  JObj(<<Entry("2025-12-20_20-11-20", Fields3(JNum(0), JNum(0), JStr("XUAT"))),
         Entry("2025-12-21_08-00-00", JObj(<<Entry("note", JStr("recount"))>>)),
         IsoFirst,
         Entry("alarm", JObj(<<Entry("2026-01-05_16-37-41",
                                     JObj(<<Entry("event", JStr(""))>>))>>)),
         Entry("door", JObj(<<DoorFirst>>))>>)
MisshapenHistory ==
  JObj(<<Entry("2025-12-20_20-11-20", JStr("void")),
         Entry("2025-12-21_08-00-00", Fields3(JNum(20), JNum(130), JStr("XUAT"))),
         Entry("alarm", JNum(5)),
         Entry("door", JObj(<<Entry("2026-01-05_16-30-00", JBool(TRUE))>>))>>)
EdgeHistories == {FalsyHistory, MisshapenHistory, JStr("none")}

SnapshotOf(q, h) ==
  [exists |-> TRUE,
   val |-> JObj(<<Entry("quantity", q)>> \o
                (IF h.kind = "undefined" THEN <<>> ELSE <<Entry("history", h)>>))]

LedgerSnapshots ==
  {MissingSnapshot, SnapshotOf(JNum(0), JUndefined)}
  \cup {SnapshotOf(JNum(120), h) : h \in HistoryValues}
  \cup {SnapshotOf(JNum(120), h) : h \in EdgeHistories}

\* a callback that reads data.history.alarm without the test of data.history
ledgerThrowsAtUnguarded(data) ==
  IF ReadThrows(Get(data, "history")) THEN "alarm" ELSE "none"

\* where the callback throws: the branch in which it reads a property of a
\* value that is undefined or null (alarm.event, door.event,
\* transaction.amount), "none" when it reads no such property
ledgerThrowsAt(data) ==
  LET hist  == Get(data, "history")
      alarm == Get(hist, "alarm")
      door  == Get(hist, "door")
  IN  IF ~Truthy(hist) THEN "none"
      ELSE IF Truthy(alarm) /\ \E i \in 1..Len(alarm.o) : ReadThrows(alarm.o[i].val)
        THEN "alarm"
      ELSE IF Truthy(door) /\ \E i \in 1..Len(door.o) : ReadThrows(door.o[i].val)
        THEN "door"
      ELSE IF \E i \in 1..Len(hist.o) :
                hist.o[i].key \notin {"alarm", "door"} /\ ReadThrows(hist.o[i].val)
        THEN "transactions"
      ELSE "none"

\* an alarm branch that publishes an empty sequence when the history has no
\* 'alarm' sub-mapping
alarmHistoryReset(hist, previous) ==
  IF Truthy(Get(hist, "alarm")) THEN alarmEventsOf(hist) ELSE <<>>

\* the alarm and the door branch: the sequence the subject holds after them
alarmHistoryAfter(hist, previous) ==
  IF Truthy(Get(hist, "alarm")) THEN alarmEventsOf(hist) ELSE previous
doorHistoryAfter(hist, previous) ==
  IF Truthy(Get(hist, "door")) THEN doorEventsOf(hist) ELSE previous

\* a ledger callback that also ends the loading state of the telemetry
LedgerSnapshotEndsLoading(snapshot) ==
  /\ pc = "idle"
  /\ IF snapshot.exists
       THEN LET data == snapshot.val
                hist == Get(data, "history")
                at   == ledgerThrowsAt(data)
            IN  /\ currentInventory' = OrElse(Get(data, "quantity"), JNum(0))
                /\ alarmHistory' =
                     IF Truthy(hist) /\ at # "alarm"
                       THEN alarmHistoryAfter(hist, alarmHistory) ELSE alarmHistory
                /\ doorHistory' =
                     IF Truthy(hist) /\ at \notin {"alarm", "door"}
                       THEN doorHistoryAfter(hist, doorHistory) ELSE doorHistory
                /\ history' =
                     IF Truthy(hist) /\ at = "none" THEN transactionsOf(hist) ELSE history
                /\ whLoading' = IF at = "none" THEN FALSE ELSE whLoading
                /\ isLoading' = FALSE
                /\ lastOp' = IF at = "none" THEN "ledgerSnapshot" ELSE "ledgerSnapshotThrew"
       ELSE /\ lastOp' = "ledgerSnapshot"
            /\ UNCHANGED <<currentInventory, history, alarmHistory, doorHistory,
                           whLoading, isLoading>>
  /\ lastSnapshot' = snapshot
  /\ delivered' = delivered \cup {"ledger"}
  /\ UNCHANGED <<now, windowVars, temperature, humidity, motion, status, lastUpdated,
                 pc, loc, dashboardVars, clientVars, cleared, ingested>>

\* the success callback of the ledger listener
LedgerSnapshot(snapshot) ==
  /\ pc = "idle"
  /\ IF snapshot.exists
       THEN LET data == snapshot.val
                hist == Get(data, "history")
                at   == ledgerThrowsAt(data)
            IN  /\ currentInventory' = OrElse(Get(data, "quantity"), JNum(0))
                /\ alarmHistory' =
                     IF Truthy(hist) /\ at # "alarm"
                       THEN alarmHistoryAfter(hist, alarmHistory) ELSE alarmHistory
                /\ doorHistory' =
                     IF Truthy(hist) /\ at \notin {"alarm", "door"}
                       THEN doorHistoryAfter(hist, doorHistory) ELSE doorHistory
                /\ history' =
                     IF Truthy(hist) /\ at = "none" THEN transactionsOf(hist) ELSE history
                /\ whLoading' = IF at = "none" THEN FALSE ELSE whLoading
                /\ lastOp' = IF at = "none" THEN "ledgerSnapshot" ELSE "ledgerSnapshotThrew"
       ELSE /\ lastOp' = "ledgerSnapshot"
            /\ UNCHANGED <<currentInventory, history, alarmHistory, doorHistory, whLoading>>
  /\ lastSnapshot' = snapshot
  /\ delivered' = delivered \cup {"ledger"}
  /\ UNCHANGED <<now, windowVars, iotVars, dashboardVars, clientVars, cleared, ingested>>

\* an error callback that goes back to the loading state
LedgerErrorReloads ==
  /\ pc = "idle"
  /\ whLoading' = TRUE
  /\ lastOp' = "ledgerError"
  /\ UNCHANGED <<now, windowVars, iotVars, dashboardVars, currentInventory, history,
                 alarmHistory, doorHistory, lastSnapshot, clientVars, traceVars>>

\* the error callback of the ledger listener
LedgerError ==
  /\ pc = "idle"
  /\ whLoading' = FALSE
  /\ lastOp' = "ledgerError"
  /\ UNCHANGED <<now, windowVars, iotVars, dashboardVars, currentInventory, history,
                 alarmHistory, doorHistory, lastSnapshot, clientVars, traceVars>>

NextLedger ==
  \/ \E snapshot \in LedgerSnapshots : LedgerSnapshot(snapshot)
  \/ LedgerError

SpecLedger == Init /\ [][NextLedger]_vars

----------------------------------------------------------------------------
(* The three listeners together: each stream delivers one snapshot, in any *)
(* order and at any time.                                                  *)

StreamLedgerSnapshots ==
  {MissingSnapshot,
   SnapshotOf(JNum(0), JUndefined),
   SnapshotOf(JNum(120), JObj(<<Entry("2025-12-20_20-11-20",
                                      Fields3(JNum(50), JNum(150), JStr("NHAP")))>>
                              \o UnderKey("alarm", <<AlarmFirst>>))),
   SnapshotOf(JNum(120), JObj(UnderKey("alarm", <<AlarmFirst, AlarmSecond>>)
                              \o UnderKey("door", <<DoorFirst>>))),
   SnapshotOf(JNum(120), JObj(<<Malformed, IsoFirst>>))}
  \cup {SnapshotOf(JNum(120), h) : h \in EdgeHistories}

DeliverTelemetry(snapshot) == "sensor" \notin delivered /\ SensorSnapshot(snapshot)
DeliverMotion(snapshot)    == "motion" \notin delivered /\ MotionSnapshot(snapshot)
DeliverLedger(snapshot)    == "ledger" \notin delivered /\ LedgerSnapshot(snapshot)

NextStreams ==
  \/ Tick
  \/ \E snapshot \in SensorSnapshots : DeliverTelemetry(snapshot)
  \/ SensorPublishHumidity
  \/ SensorPublishLastUpdated
  \/ SensorPublishLoading
  \/ SensorAddReading
  \/ SensorUpdateStatus
  \/ \E snapshot \in MotionSnapshots : DeliverMotion(snapshot)
  \/ \E snapshot \in StreamLedgerSnapshots : DeliverLedger(snapshot)

SpecStreams == Init /\ [][NextStreams]_vars

\* both services with their success and error callbacks, any number of
\* deliveries in any order
LoadingSensorSnapshots ==
  {MissingSnapshot, SensorSnapshotOf(JNum(5 * Scale), JNum(45 * Scale))}
LoadingLedgerSnapshots ==
  {MissingSnapshot,
   SnapshotOf(JNum(0), JUndefined),
   SnapshotOf(JNum(120), JObj(<<IsoFirst>> \o UnderKey("alarm", <<AlarmFirst>>)))}

NextLoading ==
  \/ \E snapshot \in LoadingSensorSnapshots : SensorSnapshot(snapshot)
  \/ SensorPublishHumidity
  \/ SensorPublishLastUpdated
  \/ SensorPublishLoading
  \/ SensorAddReading
  \/ SensorUpdateStatus
  \/ SensorError
  \/ \E snapshot \in MotionSnapshots : MotionSnapshot(snapshot)
  \/ MotionError
  \/ \E snapshot \in LoadingLedgerSnapshots : LedgerSnapshot(snapshot)
  \/ LedgerError

SpecLoading == Init /\ [][NextLoading]_vars

----------------------------------------------------------------------------
(* WarehouseService.formatDate *)

(* A string is given by what split makes of it: the parts between '_',     *)
(* each part the components between '-'.  A component carries its text,    *)
(* the number Number(text) gives (nan when it gives NaN) and whether the   *)
(* text is decimal digits only.                                            *)
Digits(text, v) == [text |-> text, nan |-> FALSE, v |-> v, digits |-> TRUE]
Word(text)      == [text |-> text, nan |-> TRUE, v |-> 0, digits |-> FALSE]
EmptyText       == [text |-> "", nan |-> FALSE, v |-> 0, digits |-> FALSE]

\* the texts formatDate can return: its argument, what toLocaleString makes
\* of a date, and what it makes of an invalid date
RawText(input)   == [kind |-> "raw", parts |-> input, date |-> <<>>]
LocaleText(date) == [kind |-> "vi-VN", parts |-> <<>>, date |-> date]
InvalidDateText  == [kind |-> "Invalid Date", parts |-> <<>>, date |-> <<>>]

\* an element of a destructured array: undefined, hence NaN, past its end
NumberAt(components, i) ==
  IF i <= Len(components) THEN [nan |-> components[i].nan, v |-> components[i].v]
                          ELSE [nan |-> TRUE, v |-> 0]

IsLeapYear(y) == (y % 4 = 0 /\ y % 100 # 0) \/ y % 400 = 0

\* days of month m0 (0 is January) of year y
DaysInMonth(y, m0) ==
  IF m0 = 1 THEN (IF IsLeapYear(y) THEN 29 ELSE 28)
  ELSE IF m0 \in {3, 5, 8, 10} THEN 30
  ELSE 31

\* the day of a date brought into its month
RECURSIVE NormalizeDay(_, _, _)
NormalizeDay(y, m0, d) ==
  IF d < 1
    THEN LET py == IF m0 = 0 THEN y - 1 ELSE y
             pm == IF m0 = 0 THEN 11 ELSE m0 - 1
         IN  NormalizeDay(py, pm, d + DaysInMonth(py, pm))
  ELSE IF d > DaysInMonth(y, m0)
    THEN LET ny == IF m0 = 11 THEN y + 1 ELSE y
             nm == IF m0 = 11 THEN 0 ELSE m0 + 1
         IN  NormalizeDay(ny, nm, d - DaysInMonth(y, m0))
  ELSE <<y, m0 + 1, d>>

\* new Date(year, monthIndex, day, hour, minute, second): values out of
\* range carry into the next unit, a year from 0 to 99 is in the 1900s
MakeDate(year, monthIndex, day, hour, minute, second) ==
  LET y0  == IF year >= 0 /\ year <= 99 THEN 1900 + year ELSE year
      mi1 == minute + (second \div 60)
      h1  == hour + (mi1 \div 60)
      d1  == day + (h1 \div 24)
      y1  == y0 + (monthIndex \div 12)
      ymd == NormalizeDay(y1, monthIndex % 12, d1)
  IN  ymd \o <<h1 % 24, mi1 % 60, second % 60>>

\* formatDate.  Without a second part timePart is undefined and
\* timePart.split throws, which the catch turns into the argument; nothing
\* else in the try block throws.
formatDate(input) ==
  IF Len(input) < 2
    THEN RawText(input)
    ELSE LET year   == NumberAt(input[1], 1)
             month  == NumberAt(input[1], 2)
             day    == NumberAt(input[1], 3)
             hour   == NumberAt(input[2], 1)
             minute == NumberAt(input[2], 2)
             second == NumberAt(input[2], 3)
         IN  IF year.nan \/ month.nan \/ day.nan \/ hour.nan \/ minute.nan \/ second.nan
               THEN InvalidDateText
               ELSE LocaleText(MakeDate(year.v, month.v - 1, day.v,
                                        hour.v, minute.v, second.v))

\* the arguments of the model
DateTexts ==
  {<<Digits("2025", 2025), m, d>> :
     m \in {Digits("02", 2), Digits("12", 12), Digits("13", 13), Word("ab"), EmptyText},
     d \in {Digits("20", 20), Digits("30", 30), Digits("45", 45), Digits("00", 0)}}
  \cup {<<Digits("2025", 2025), Digits("12", 12)>>,
        <<Word("not"), Word("a"), Word("date")>>}
TimeTexts ==
  {<<Digits("20", 20), Digits("11", 11), Digits("20", 20)>>,
   <<Digits("25", 25), Digits("61", 61), Digits("61", 61)>>,
   <<Digits("20", 20), Digits("11", 11)>>,
   <<Digits("20", 20), Digits("11", 11), Word("xx")>>,
   <<Digits("20", 20), Digits("11", 11), Digits("20", 20), Digits("99", 99)>>}
DateStrings ==
  {<<d>> : d \in DateTexts}
  \cup {<<d, t>> : d \in DateTexts, t \in TimeTexts}
  \cup {<<d, t, t>> : d \in {<<Digits("2025", 2025), Digits("12", 12), Digits("20", 20)>>},
                      t \in TimeTexts}

FormatDateCall(input) ==
  /\ pc = "idle"
  /\ formatted' = [called |-> TRUE, input |-> input, output |-> formatDate(input)]
  /\ lastOp' = "formatDate"
  /\ UNCHANGED <<now, windowVars, iotVars, dashboardVars, warehouseVars, held, traceVars>>

NextFormat == \E input \in DateStrings : FormatDateCall(input)

SpecFormat == Init /\ [][NextFormat]_vars

----------------------------------------------------------------------------
(* Claims about the rolling window *)

\* C1: after N pushes onto an empty window of capacity maxReadings the window
\* holds exactly min(N, maxReadings) readings, and they are the most recently
\* pushed ones in arrival order (oldest first, newest last).
C1_WindowHoldsMostRecent ==
  LET n == Len(pushed)
      k == Min(n, maxReadings)
  IN  /\ Len(readings) = k
      /\ readings = SubSeq(pushed, n - k + 1, n)

\* a push has evicted: more readings were pushed than the window holds
C1_Witness ==
  /\ lastOp = "addReading"
  /\ Len(pushed) > maxReadings
  /\ Len(readings) = maxReadings

\* C9: on an empty window (initially, or after clearReadings) each of the six
\* statistics returns 0.
C9_EmptyWindowStatsAreZero ==
  readings = <<>> =>
    /\ getAverageTemperature = Zero
    /\ getAverageHumidity = Zero
    /\ getMaxTemperature = Zero
    /\ getMinTemperature = Zero
    /\ getMaxHumidity = Zero
    /\ getMinHumidity = Zero

\* the window was emptied by clearReadings after it had held readings
C9_Witness ==
  /\ lastOp = "clearReadings"
  /\ readings = <<>>
  /\ now > 0

\* C10: on a non-empty window min <= average <= max holds for temperature
\* and for humidity.
C10_MinAverageMax ==
  readings # <<>> =>
    /\ LeD(getMinTemperature, getAverageTemperature)
    /\ LeD(getAverageTemperature, getMaxTemperature)
    /\ LeD(getMinHumidity, getAverageHumidity)
    /\ LeD(getAverageHumidity, getMaxHumidity)

----------------------------------------------------------------------------
(* Claims about the telemetry *)

\* C2: no observer sees a torn telemetry tuple.  Whenever subscribers can
\* run once a snapshot has been taken in, temperature and humidity are the
\* ones of that snapshot, status is their classification and loading is
\* false: the values change as one publish.
C2_NoTornTuple ==
  lastOp = "sensorSnapshot" =>
    /\ temperature = loc.temperature
    /\ humidity = loc.humidity
    /\ status = updateStatus(temperature, humidity)
    /\ isLoading = FALSE

\* C3: the status is optimal exactly when 16 <= t <= 26 and 30 <= h <= 60;
\* otherwise warning exactly when 12 <= t <= 30 and 20 <= h <= 70; otherwise
\* critical.  The limits are inclusive, (26, 60) is optimal, (29, 65) is
\* warning, (5, 90) is critical, and every pair gets one of the three.
C3_Classifier ==
  /\ (pc = "idle" /\ lastOp = "sensorSnapshot") =>
       LET t == temperature
           h == humidity
           inOptimal == 16 * Scale <= t /\ t <= 26 * Scale /\ 30 * Scale <= h /\ h <= 60 * Scale
           inWarning == 12 * Scale <= t /\ t <= 30 * Scale /\ 20 * Scale <= h /\ h <= 70 * Scale
       IN  /\ status \in {"optimal", "warning", "critical"}
           /\ status = "optimal" <=> inOptimal
           /\ status = "warning" <=> (~inOptimal /\ inWarning)
           /\ status = "critical" <=> (~inOptimal /\ ~inWarning)
  /\ updateStatus(26 * Scale, 60 * Scale) = "optimal"
  /\ updateStatus(29 * Scale, 65 * Scale) = "warning"
  /\ updateStatus(5 * Scale, 90 * Scale) = "critical"

C3_Witness ==
  /\ pc = "idle"
  /\ lastOp = "sensorSnapshot"
  /\ temperature = 26 * Scale
  /\ humidity = 60 * Scale
  /\ status = "optimal"

\* C4: after an error of the sensor feed that follows at least one ingest,
\* temperature, humidity, status, lastUpdated and the window are those of
\* the last ingest, and loading is false.
C4_ErrorKeepsLastIngest ==
  (lastOp = "sensorError" /\ pushed # <<>>) =>
    LET n    == Len(pushed)
        last == pushed[n]
    IN  /\ temperature = last.temperature
        /\ humidity = last.humidity
        /\ status = updateStatus(last.temperature, last.humidity)
        /\ lastUpdated = last.timestamp
        /\ readings = SubSeq(pushed, n - Min(n, maxReadings) + 1, n)
        /\ isLoading = FALSE

C4_Witness ==
  /\ lastOp = "sensorError"
  /\ Len(pushed) = 2
  /\ temperature = 5 * Scale
  /\ status = "critical"
  /\ now > lastUpdated

----------------------------------------------------------------------------
(* Claims about the intruder alert *)

\* C5: two calls of triggerTheftAlert less than the expiry delay apart end
\* in exactly one clearing of the alert by a timer, and that clearing comes
\* a full expiry delay after the second call.
C5_OneClearAfterSecondTrigger ==
  LET trig   == EventsOf("trigger")
      clears == EventsOf("clear")
  IN  (/\ Cardinality(trig) = 2
       /\ \A i, j \in trig : alertLog[j].at - alertLog[i].at < ExpiryDelay
       /\ timers = <<>>)
      => /\ Cardinality(clears) = 1
         /\ \A c \in clears : \A i \in trig : alertLog[c].at >= alertLog[i].at + ExpiryDelay

\* C6: no timer clears the alert before a full expiry delay has passed
\* since the most recent call of triggerTheftAlert.
C6_NoClearBeforeLatestExpiry ==
  \A c \in EventsOf("clear") : \A i \in EventsOf("trigger") :
    i < c => alertLog[c].at >= alertLog[i].at + ExpiryDelay

----------------------------------------------------------------------------
(* Claims about the ledger *)

LastHistory == Get(lastSnapshot.val, "history")
KeysOf(m)   == {m.o[i].key : i \in 1..Len(m.o)}
Reconciled  == lastOp = "ledgerSnapshot" /\ lastSnapshot.exists /\ Truthy(LastHistory)

\* C7: after a ledger snapshot is reconciled, the alarm sequence holds
\* exactly the entries of the alarm sub-mapping, the door sequence exactly
\* those of the door sub-mapping, and the transactions only top-level
\* entries: none of them is 'alarm' or 'door' and none is an entry of a
\* sub-mapping.
C7_CategoryPartition ==
  Reconciled =>
    LET alarm  == Get(LastHistory, "alarm")
        door   == Get(LastHistory, "door")
        alarms == {alarmHistory[i].timestamp : i \in 1..Len(alarmHistory)}
        doors  == {doorHistory[i].timestamp : i \in 1..Len(doorHistory)}
        dates  == {history[i].date : i \in 1..Len(history)}
    IN  /\ Truthy(alarm) => Len(alarmHistory) = Len(alarm.o) /\ alarms = KeysOf(alarm)
        /\ Truthy(door) => Len(doorHistory) = Len(door.o) /\ doors = KeysOf(door)
        /\ Len(history) = Cardinality(dates)
        /\ dates \subseteq KeysOf(LastHistory) \ {"alarm", "door"}
        /\ dates \cap (KeysOf(alarm) \cup KeysOf(door)) = {}

C7_Witness ==
  /\ Reconciled
  /\ Len(Get(LastHistory, "alarm").o) = 2
  /\ Len(Get(LastHistory, "door").o) = 2
  /\ Len(alarmHistory) = 2
  /\ Len(doorHistory) = 2
  /\ Len(history) = 2

\* the date a well-formed key denotes is later than the one of another key
RECURSIVE LaterFrom(_, _, _)
LaterFrom(a, b, i) ==
  IF i > Len(a) THEN FALSE
  ELSE IF a[i] # b[i] THEN a[i] > b[i]
  ELSE LaterFrom(a, b, i + 1)
Later(k1, k2) == LaterFrom(DateParts(k1), DateParts(k2), 1)

\* C8: a reconciled snapshot with distinct well-formed keys is published
\* newest first.  The transactions are strictly descending by the date
\* their keys denote, whatever the iteration order of the keys, and so are
\* the alarm events and the door events.
C8_NewestFirst ==
  Reconciled =>
    /\ (\A i \in 1..Len(history) : history[i].date \in WellFormedKeys) =>
         \A i, j \in 1..Len(history) : i < j => Later(history[i].date, history[j].date)
    /\ Truthy(Get(LastHistory, "alarm")) =>
         \A i, j \in 1..Len(alarmHistory) :
           i < j => Later(alarmHistory[i].timestamp, alarmHistory[j].timestamp)
    /\ Truthy(Get(LastHistory, "door")) =>
         \A i, j \in 1..Len(doorHistory) :
           i < j => Later(doorHistory[i].timestamp, doorHistory[j].timestamp)

----------------------------------------------------------------------------
(* Claims about the window's callers *)

\* C11: the sequence getAllReadings returned is a snapshot copy.  Whatever
\* addReading and clearReadings calls follow, the array the caller holds
\* has the length and the contents it had when it was returned.
C11_SnapshotCopy ==
  held.obtained => held.value = held.taken

\* C12: clearReadings empties the window at once, whatever it held, and an
\* addReading that follows it yields a window holding exactly the reading
\* just pushed.
C12_ClearEmptiesWindow ==
  /\ lastOp = "clearReadings" => Len(readings) = 0
  /\ (lastOp = "addReading" /\ cleared >= 0 /\ Len(pushed) = 1) =>
       Len(readings) = 1 /\ readings[1] = pushed[1]

C12_Witness ==
  /\ lastOp = "addReading"
  /\ cleared = maxReadings
  /\ Len(pushed) = 1
  /\ Len(readings) = 1

----------------------------------------------------------------------------
(* Claims about formatDate *)

\* a string of the pattern YYYY-MM-DD_HH-mm-ss: two parts of three
\* components each, all of digits, that name a date and a time of day
MatchesPattern(input) ==
  /\ Len(input) = 2
  /\ Len(input[1]) = 3
  /\ Len(input[2]) = 3
  /\ \A p \in 1..2 : \A i \in 1..3 : input[p][i].digits
  /\ input[1][2].v \in 1..12
  /\ input[1][3].v \in 1..DaysInMonth(input[1][1].v, input[1][2].v - 1)
  /\ input[2][1].v \in 0..23
  /\ input[2][2].v \in 0..59
  /\ input[2][3].v \in 0..59

\* C13: for every string that does not match the pattern (a wrong number
\* of components, a component that is no number, a value out of its
\* calendar range) formatDate returns the string itself.
C13_FallbackToInput ==
  (formatted.called /\ ~MatchesPattern(formatted.input)) =>
    formatted.output = RawText(formatted.input)

----------------------------------------------------------------------------
(* Claims about the motion stream *)

\* C14: a motion snapshot leaves temperature, humidity, status,
\* lastUpdated, loading and the rolling window as they are, and a telemetry
\* snapshot or a telemetry error leaves the motion flag as it is.
C14_MotionFrame ==
  [][/\ lastOp' = "motionSnapshot" =>
          UNCHANGED <<temperature, humidity, status, lastUpdated, isLoading, readings>>
     /\ lastOp' \in {"sensorSnapshot", "sensorSnapshotMissing", "sensorError"} =>
          motion' = motion]_vars

C14_Witness ==
  /\ lastOp = "motionSnapshot"
  /\ motion = JBool(TRUE)
  /\ temperature = 5 * Scale
  /\ status = "critical"
  /\ Len(readings) = 1

----------------------------------------------------------------------------
(* Claims about partial ledger snapshots and coercion *)

\* C15: a ledger snapshot with a history but without an 'alarm'
\* sub-mapping leaves the published alarm sequence as it was, and one
\* without a 'door' sub-mapping leaves the door sequence as it was.
C15_AbsentSubMappingKeepsSequence ==
  [][(lastOp' = "ledgerSnapshot" /\ lastSnapshot'.exists /\ Truthy(LastHistory')) =>
       /\ ~Truthy(Get(LastHistory', "alarm")) => alarmHistory' = alarmHistory
       /\ ~Truthy(Get(LastHistory', "door")) => doorHistory' = doorHistory]_vars

C15_Witness ==
  /\ Reconciled
  /\ ~Truthy(Get(LastHistory, "alarm"))
  /\ Len(alarmHistory) = 2
  /\ Len(Get(LastHistory, "door").o) = 1
  /\ Len(doorHistory) = 1

\* C16: after a ledger snapshot has arrived, each published sequence is
\* rebuilt from that snapshot alone: it has exactly the entries of the
\* latest snapshot and none that the latest snapshot lacks.
C16_RebuiltFromLatest ==
  (lastOp = "ledgerSnapshot" /\ lastSnapshot.exists) =>
    /\ {alarmHistory[i].timestamp : i \in 1..Len(alarmHistory)}
         = KeysOf(Get(LastHistory, "alarm"))
    /\ {doorHistory[i].timestamp : i \in 1..Len(doorHistory)}
         = KeysOf(Get(LastHistory, "door"))
    /\ {history[i].date : i \in 1..Len(history)}
         \subseteq KeysOf(LastHistory) \ {"alarm", "door"}

\* C17: a top-level record whose amount is present and is not a number is
\* published as a transaction with amount 0.
C17_NonNumericAmountIsZero ==
  Reconciled =>
    \A i \in 1..Len(history) :
      /\ Get(Get(LastHistory, history[i].date), "amount").kind # "number" =>
           history[i].amount = JNum(0)
      /\ history[i].amount.kind = "number"

\* C18: when one published transaction has a malformed key and the others
\* have well-formed keys, the well-formed ones are in descending order of
\* their dates among themselves and the malformed one is last.
C18_MalformedKeyLast ==
  LET n         == Len(history)
      malformed == {i \in 1..n : history[i].date \notin WellFormedKeys \cup IsoKeys}
      wellFormed == {i \in 1..n : history[i].date \in WellFormedKeys}
  IN  (Reconciled /\ Cardinality(malformed) = 1 /\ Cardinality(wellFormed) = n - 1 /\ n >= 3) =>
        /\ malformed = {n}
        /\ \A i, j \in wellFormed : i < j => Later(history[i].date, history[j].date)

----------------------------------------------------------------------------
(* Claims about coercion of the telemetry and about the streams *)

\* C19: a temperature or humidity field that is missing or is no number is
\* ingested as 0.  Once the snapshot is handled the published value is 0,
\* the reading pushed into the window has 0 for that field, and the status
\* is the classification of the coerced pair.
C19_MissingFieldIsZero ==
  (pc = "idle" /\ lastOp = "sensorSnapshot") =>
    LET rawT == Get(loc.data, "temperature")
        rawH == Get(loc.data, "humidity")
        last == readings[Len(readings)]
        t    == IF rawT.kind \in {"number", "numstring"} THEN rawT.n ELSE 0
        h    == IF rawH.kind \in {"number", "numstring"} THEN rawH.n ELSE 0
    IN  /\ temperature = t /\ last.temperature = t
        /\ humidity = h /\ last.humidity = h
        /\ status = updateStatus(t, h)

C19_Witness ==
  /\ pc = "idle"
  /\ lastOp = "sensorSnapshot"
  /\ Get(loc.data, "temperature") = JStr("n/a")
  /\ Get(loc.data, "humidity") = JUndefined
  /\ temperature = 0
  /\ humidity = 0
  /\ status = "critical"
  /\ Len(readings) = 2

\* the published values of the telemetry and of the ledger
telemetryValues == <<temperature, humidity, status, lastUpdated, isLoading, readings>>
ledgerValues    == <<currentInventory, history, alarmHistory, doorHistory, whLoading>>

\* what one telemetry snapshot, one motion snapshot and one ledger
\* snapshot leave behind, each taken on its own
TelemetryOutcome ==
  IF loc.data.kind = "undefined"
    THEN <<temperature, humidity, status, isLoading>> = <<0, 0, "optimal", TRUE>>
         /\ readings = <<>>
    ELSE LET t == ParseFloatOrZero(Get(loc.data, "temperature"))
             h == ParseFloatOrZero(Get(loc.data, "humidity"))
         IN  /\ <<temperature, humidity, status, isLoading>> = <<t, h, updateStatus(t, h), FALSE>>
             /\ Len(readings) = 1
             /\ <<readings[1].temperature, readings[1].humidity>> = <<t, h>>
             /\ readings[1].timestamp = lastUpdated

MotionOutcome ==
  IF Truthy(motion)
    THEN intruderAlert /\ Len(timers) = 1 /\ TriggerCount = 1
    ELSE motion = JBool(FALSE) /\ ~intruderAlert /\ timers = <<>> /\ alertLog = <<>>

LedgerOutcome ==
  IF lastSnapshot.exists
    THEN /\ currentInventory = OrElse(Get(lastSnapshot.val, "quantity"), JNum(0))
         /\ ~whLoading
         /\ IF Truthy(LastHistory)
              THEN /\ history = transactionsOf(LastHistory)
                   /\ alarmHistory = alarmHistoryAfter(LastHistory, <<>>)
                   /\ doorHistory = doorHistoryAfter(LastHistory, <<>>)
              ELSE <<history, alarmHistory, doorHistory>> = <<<<>>, <<>>, <<>>>>
    ELSE ledgerValues = <<JNum(0), <<>>, <<>>, <<>>, TRUE>>

\* C20: the telemetry, the motion and the ledger stream are independent.
\* Once each has delivered one snapshot, in whatever order the handlers
\* ran, the published state is the one the three snapshots determine, and
\* no handler changes a published value of another stream.
C20_StreamsIndependent ==
  /\ []((delivered = {"sensor", "motion", "ledger"} /\ pc = "idle") =>
          (TelemetryOutcome /\ MotionOutcome /\ LedgerOutcome))
  /\ [][/\ lastOp' \in {"sensorSnapshot", "sensorSnapshotMissing"} =>
             UNCHANGED <<motion, intruderAlert, timers, ledgerValues>>
        /\ lastOp' = "motionSnapshot" => UNCHANGED <<telemetryValues, ledgerValues>>
        /\ lastOp' = "ledgerSnapshot" =>
             UNCHANGED <<telemetryValues, motion, intruderAlert, timers>>]_vars

C20_Witness ==
  /\ delivered = {"sensor", "motion", "ledger"}
  /\ pc = "idle"
  /\ temperature = 5 * Scale
  /\ Truthy(motion)
  /\ Len(alarmHistory) = 2
  /\ lastOp = "sensorSnapshot"

----------------------------------------------------------------------------
(* Claims about capacity, defaults and skipped records *)

\* C21: capacity is never exceeded where a caller can look.  Whenever a
\* caller can run, the array the subject holds (the one readings$ emitted
\* last and getAllReadings returns) and the array a caller obtained earlier
\* hold at most maxReadings readings, evicting pushes included.
C21_CapacityNeverExceeded ==
  pc = "idle" =>
    /\ Len(readings) <= maxReadings
    /\ held.obtained => Len(held.value) <= maxReadings /\ Len(held.taken) <= maxReadings

C21_Witness ==
  /\ lastOp = "addReading"
  /\ Len(pushed) > maxReadings
  /\ Len(readings) = maxReadings
  /\ held.obtained
  /\ Len(held.taken) = maxReadings
  /\ Len(held.value) = maxReadings
  /\ held.value # held.taken

\* the value published for a field: the default when the record has no such
\* field, the field's own value when it has
OwnOrDefault(record, field, default) ==
  IF Get(record, field).kind = "undefined" THEN default ELSE Get(record, field)

\* C22: every published record takes the documented default only when the
\* field is absent.  An alarm entry without event is published as 'ALARM',
\* a door entry without event as 'OPEN', a transaction without ton_sau or
\* type with 0 and 'NHAP'; a field that is present is published with its
\* own value, under the record's key.
C22_DefaultOnlyWhenAbsent ==
  Reconciled =>
    LET alarm == Get(LastHistory, "alarm")
        door  == Get(LastHistory, "door")
    IN  /\ Truthy(alarm) =>
             \A i \in 1..Len(alarmHistory) :
               alarmHistory[i].event
                 = OwnOrDefault(Get(alarm, alarmHistory[i].timestamp), "event", JStr("ALARM"))
        /\ Truthy(door) =>
             \A i \in 1..Len(doorHistory) :
               doorHistory[i].event
                 = OwnOrDefault(Get(door, doorHistory[i].timestamp), "event", JStr("OPEN"))
        /\ \A i \in 1..Len(history) :
             LET record == Get(LastHistory, history[i].date)
             IN  /\ history[i].amount = OwnOrDefault(record, "amount", JNum(0))
                 /\ history[i].ton_sau = OwnOrDefault(record, "ton_sau", JNum(0))
                 /\ history[i].type = OwnOrDefault(record, "type", JStr("NHAP"))

\* the top-level keys of the history whose record exposes an amount
AmountKeys ==
  {k \in KeysOf(LastHistory) \ {"alarm", "door"} :
     Get(Get(LastHistory, k), "amount").kind # "undefined"}

\* C23: a top-level record (other than 'alarm' and 'door') without an
\* amount field is skipped, and every sibling that has an amount field, an
\* amount of 0 included, is published as a transaction.
C23_RecordWithoutAmountSkipped ==
  Reconciled =>
    /\ {history[i].date : i \in 1..Len(history)} = AmountKeys
    /\ Len(history) = Cardinality(AmountKeys)
    /\ whLoading = FALSE

C23_Witness ==
  /\ Reconciled
  /\ \E k \in KeysOf(LastHistory) \ {"alarm", "door"} : k \notin AmountKeys
  /\ \E i \in 1..Len(history) :
       /\ Get(Get(LastHistory, history[i].date), "amount") = JNum(0)
       /\ history[i].amount = JNum(0)
  /\ Len(history) = 2

\* C24: no malformed value aborts an ingest.  Whatever the shape of a
\* record or a field of a telemetry or ledger snapshot, the callback throws
\* nothing and runs to its end: the well-formed siblings of a malformed
\* record are published and the loading state of the service has ended.
C24_NoMalformedValueAborts ==
  /\ lastOp \notin {"sensorSnapshotThrew", "ledgerSnapshotThrew"}
  /\ ("ledger" \in delivered /\ lastSnapshot.exists) =>
       /\ whLoading = FALSE
       /\ Truthy(LastHistory) =>
            /\ {history[i].date : i \in 1..Len(history)} = AmountKeys
            /\ Truthy(Get(LastHistory, "door")) =>
                 {doorHistory[i].timestamp : i \in 1..Len(doorHistory)}
                   = KeysOf(Get(LastHistory, "door"))
  /\ ("sensor" \in delivered /\ pc = "idle" /\ loc.data.kind # "undefined") =>
       /\ isLoading = FALSE
       /\ Len(readings) = 1
       /\ status = updateStatus(temperature, humidity)

C24_Witness ==
  /\ "ledger" \in delivered
  /\ LastHistory = MisshapenHistory
  /\ Len(history) = 1
  /\ Len(doorHistory) = 1
  /\ "sensor" \in delivered
  /\ loc.data = JStr("offline")
  /\ pc = "idle"
  /\ Len(readings) = 1

----------------------------------------------------------------------------
(* Claims about the expiry of the alert *)

\* C25: every alert is eventually cleared.  Whenever the alert flag is
\* true, then as long as time passes and due timers fire, the flag becomes
\* false again, with no call of dismissAlert needed.
C25_AlertEventuallyCleared ==
  intruderAlert ~> ~intruderAlert

C25_Witness ==
  /\ lastOp = "timerFire"
  /\ intruderAlert = FALSE
  /\ DismissCount = 0
  /\ TriggerCount = MaxTriggers
  /\ alertLog[Len(alertLog) - 1].ev = "trigger"
  /\ timers # <<>>

----------------------------------------------------------------------------
(* Claims about the status and the loading state *)

\* C26: whenever no handler is running, the initial state included, the
\* published status is the classification of the published temperature and
\* humidity.
C26_StatusIsClassification ==
  pc = "idle" => status = updateStatus(temperature, humidity)

\* the more severe of two statuses
Severity(s) == CASE s = "optimal" -> 0 [] s = "warning" -> 1 [] s = "critical" -> 2
MoreSevere(s1, s2) == IF Severity(s1) >= Severity(s2) THEN s1 ELSE s2

\* C27: the status updateStatus publishes for a pair is the more severe of
\* getTemperatureStatus(temperature) and getHumidityStatus(humidity); it is
\* optimal only when both are optimal and critical whenever one is critical.
C27_MoreSevereDimension ==
  (pc = "idle" /\ lastOp = "sensorSnapshot") =>
    LET ofTemperature == getTemperatureStatus(temperature)
        ofHumidity    == getHumidityStatus(humidity)
    IN  /\ status = MoreSevere(ofTemperature, ofHumidity)
        /\ status = "optimal" <=> (ofTemperature = "optimal" /\ ofHumidity = "optimal")
        /\ "critical" \in {ofTemperature, ofHumidity} => status = "critical"

C27_Witness ==
  /\ pc = "idle"
  /\ lastOp = "sensorSnapshot"
  /\ temperature = 20 * Scale
  /\ humidity = 65 * Scale
  /\ getTemperatureStatus(temperature) = "optimal"
  /\ getHumidityStatus(humidity) = "warning"
  /\ status = "warning"

\* C28: each successful telemetry ingest pushes exactly one reading, and
\* once it is complete the newest reading of the window has the published
\* temperature and humidity; errors and snapshots that do not exist push
\* nothing.
C28_OneReadingPerIngest ==
  /\ pc \in {"idle", "updateStatus"} => Len(pushed) = ingested
  /\ pc \in {"humidity", "lastUpdated", "isLoading", "addReading"} =>
       Len(pushed) = ingested - 1
  /\ (pc = "idle" /\ ingested > 0) =>
       /\ readings[Len(readings)].temperature = temperature
       /\ readings[Len(readings)].humidity = humidity

C28_Witness ==
  /\ pc = "idle"
  /\ lastOp = "sensorError"
  /\ "motion" \in delivered
  /\ ingested = 2
  /\ Len(pushed) = 2
  /\ pushed[1].temperature # pushed[2].temperature
  /\ readings[Len(readings)].temperature = temperature

\* C29: the loading flag of each service starts true and never goes back
\* to true once it is false, whatever snapshot, error or motion event
\* follows; a delivery whose snapshot does not exist changes no published
\* value and leaves loading as it was.
C29_LoadingMonotone ==
  /\ isLoading = TRUE /\ whLoading = TRUE
  /\ [][/\ isLoading = FALSE => isLoading' = FALSE
        /\ whLoading = FALSE => whLoading' = FALSE
        /\ (lastOp' = "sensorSnapshotMissing"
              \/ (lastOp' = "ledgerSnapshot" /\ ~lastSnapshot'.exists)) =>
             UNCHANGED <<telemetryValues, motion, intruderAlert, ledgerValues>>]_vars

C29_Witness ==
  /\ lastOp = "sensorSnapshotMissing"
  /\ ingested >= 1
  /\ ~isLoading
  /\ ~whLoading
  /\ ~lastSnapshot.exists
  /\ "motion" \in delivered

\* C30: after dismissAlert the timer of the dismissed alert has no further
\* effect.  An alert triggered after the dismissal and before the timer of
\* the dismissed alert is due is not cleared before its own full expiry
\* delay has passed.
C30_DismissedTimerHasNoEffect ==
  \A j, i \in EventsOf("trigger"), d \in EventsOf("dismiss"), c \in EventsOf("clear") :
    (/\ j < d /\ d < i /\ i < c
     /\ alertLog[i].at < alertLog[j].at + ExpiryDelay) =>
      alertLog[c].at >= alertLog[i].at + ExpiryDelay

=============================================================================
